---- MODULE Spec2Model ----
(***************************************************************************)
(* Model of testscripts/compatibility_core.py: VirtualEnvBuilder.activate, *)
(* CaseRunner.run / run_single and Case.run with its workspace handling.   *)
(* The harness is sequential; pc is the position of the one driving thread *)
(* inside CaseRunner.run.  External calls (venv.create, pip, mkdtemp,      *)
(* makedirs, the python/go subprocesses, compare, rmtree) may raise; which *)
(* one raises is an input of the action that performs the call.            *)
(***************************************************************************)
EXTENDS Integers, Sequences, FiniteSets, TLC

\* ---------------------------------------------------------------- bounds
\* most external calls that may fail in one behaviour
MaxFaults == 1
\* most Outcomes the runner accumulates before no further run is started
MaxOutcomes == 2
\* most entries of a matrix handed to compare_matrices
MaxEntries == 3
\* most Outcomes handed to a ReportFormatter
MaxReportLen == 3

\* ------------------------------------------------------------ LibraryType
LibraryType == {"XGBOOST", "LIGHTGBM", "SKLEARN"}

\* str.lower() of the enumeration member's name
Lower(name) ==
    CASE name = "XGBOOST" -> "xgboost"
      [] name = "LIGHTGBM" -> "lightgbm"
      [] name = "SKLEARN" -> "sklearn"
      [] OTHER -> "none"

\* version strings, as their dot-separated components: "1.0" is <<1, 0>>
V10 == <<1, 0>>
V20 == <<2, 0>>

\* the concrete Case subclasses driven through the runner
CaseClasses ==
    { [name |-> "XGCase", library |-> "XGBOOST", versions |-> <<V10, V20>>],
      [name |-> "LGCase", library |-> "LIGHTGBM", versions |-> <<V10>>],
      [name |-> "SKCase", library |-> "SKLEARN", versions |-> <<V10>>] }

NoClass == [name |-> "None", library |-> "None", versions |-> <<>>]

\* ------------------------------------------------------------------ paths
\* dirname values: None, a caller-supplied relative path, its absolute
\* form, or a directory made by tempfile.mkdtemp(prefix='matrixtest')
None == [kind |-> "None", id |-> 0]
SuppliedDir == [kind |-> "rel", id |-> 0]
TmpDirs == { [kind |-> "matrixtest", id |-> n] : n \in 1..(MaxFaults + 1) }

\* os.path.abspath
abspath(d) == IF d.kind = "rel" THEN [d EXCEPT !.kind = "abs"] ELSE d

\* `not self.dirname`
Truthy(d) == d.kind # "None"

\* VirtualEnvBuilder._env_name
_env_name(library_type, version) ==
    [lib |-> Lower(library_type), ver |-> version]

\* VirtualEnvBuilder._env_full_path: os.path.join(root_dir, env_name)
_env_full_path(library_type, version) ==
    [root |-> "root_dir", name |-> _env_name(library_type, version)]

\* the environment paths the case classes can ask for
EnvPaths ==
    UNION { { _env_full_path(c.library, c.versions[i]) : i \in DOMAIN c.versions } :
            c \in CaseClasses }

\* the VEnv namedtuple
VEnv(library_type, version) ==
    [ env_dir |-> _env_full_path(library_type, version),
      python_path |-> <<_env_full_path(library_type, version), "bin", "python">>,
      pip_path |-> <<_env_full_path(library_type, version), "bin", "pip">>,
      env_name |-> _env_name(library_type, version),
      library |-> library_type,
      version |-> version ]

NoEnv ==
    [ env_dir |-> [root |-> "None", name |-> [lib |-> "none", ver |-> <<>>]],
      python_path |-> <<>>,
      pip_path |-> <<>>,
      env_name |-> [lib |-> "none", ver |-> <<>>],
      library |-> "None",
      version |-> <<>> ]

VARIABLES
    reuse_envs,   \* VirtualEnvBuilder.reuse_envs
    envFs,        \* what is at each environment path: "absent", "file", "dir"
    envPkgs,      \* packages pip installed into each environment, in order
    dirs,         \* working directories that exist on disk
    outcomes,     \* CaseRunner.outcomes
    pc,           \* position of the driving thread
    runner,       \* the CaseRunner.run invocation in progress
    act,          \* the activate call of the current run_single
    env,          \* the VEnv activate returned to run_single
    lastEnv,      \* per environment path, the VEnv an earlier activate returned
    case,         \* the Case instance of the current run_single
    ret,          \* what Case.run returned
    exc,          \* the exception that left CaseRunner.run
    faults,       \* external calls that have failed so far
    cmpCall,      \* a compare_matrices call: its arguments and its result
    rep           \* what ReportFormatter.report returned, last and before

vars == << reuse_envs, envFs, envPkgs, dirs, outcomes, pc, runner, act, env,
           lastEnv, case, ret, exc, faults, cmpCall, rep >>

NoExc == [from |-> "none", kind |-> "none"]
NoRet == [returned |-> FALSE, is_success |-> FALSE, reason |-> ""]
NoCase == [venv |-> NoEnv, dirname |-> None, delete_dir |-> "unset", steps |-> <<>>]
NoAct ==
    [ library |-> "None", version |-> <<>>, before |-> "absent", prior |-> NoEnv,
      log |-> <<>>, fault |-> "ok" ]
NoRunner ==
    [ case_class |-> NoClass, dirname |-> None, i |-> 0, base |-> <<>>,
      pre |-> <<>>, cases_run |-> <<>>, case_failures |-> <<>> ]

\* ------------------------------------------------------ VirtualEnvBuilder
\* _if_exist: "True", "False", or "raise" for the RuntimeError
\* (mutant: the isdir test is missing)
_if_exist_no_isdir(library_type, version) ==
    IF envFs[_env_full_path(library_type, version)] # "absent"
    THEN "True"
    ELSE "False"

_if_exist(library_type, version) ==
    IF envFs[_env_full_path(library_type, version)] # "absent"
    THEN IF envFs[_env_full_path(library_type, version)] # "dir"
         THEN "raise"
         ELSE "True"
    ELSE "False"

\* (mutant: the operands of `and` swapped, so _if_exist is skipped without reuse)
activate_check_swapped(library_type, version) ==
    IF ~reuse_envs THEN "create"
    ELSE IF _if_exist(library_type, version) = "raise" THEN "raise"
    ELSE IF _if_exist(library_type, version) = "True" THEN "reuse"
    ELSE "create"

\* (mutant: the reuse flag negated, so an existing environment is rebuilt)
activate_check_rebuild(library_type, version) ==
    IF _if_exist(library_type, version) = "raise" THEN "raise"
    ELSE IF _if_exist(library_type, version) = "True" /\ ~reuse_envs THEN "reuse"
    ELSE "create"

\* `if self._if_exist(library_type, version) and self.reuse_envs`: _if_exist
\* is evaluated first, whatever reuse_envs is
activate_check(library_type, version) ==
    IF _if_exist(library_type, version) = "raise" THEN "raise"
    ELSE IF _if_exist(library_type, version) = "True" /\ reuse_envs THEN "reuse"
    ELSE "create"

VenvCreate == [call |-> "venv.create", name |-> "", pin |-> <<>>]
PipInstall(package) == [call |-> "pip install", name |-> package.name, pin |-> package.pin]

\* 'sklearn', installed first in both branches
AuxPackage == [name |-> "sklearn", pin |-> <<>>]

\* f'lightgbm=={version}' for LIGHTGBM, f'xgboost=={version}' otherwise
LibraryPackage(library_type, version) ==
    IF library_type = "LIGHTGBM"
    THEN [name |-> "lightgbm", pin |-> version]
    ELSE [name |-> "xgboost", pin |-> version]

ActivateFaults == {"ok", "venv.create", "sklearn", "library"}

\* activate: o names the external call that raises ("ok": none does);
\* made says whether a venv.create that raises left the directory behind.
\* Result: the exception raised or the VEnv returned, the external calls made,
\* and what the environment path holds afterwards.
activate(library_type, version, o, made) ==
    LET p == _env_full_path(library_type, version)
        chk == activate_check(library_type, version)
        lib == LibraryPackage(library_type, version)
    IN  IF chk = "raise"
        THEN [ exc |-> "should be directory", env |-> NoEnv, log |-> <<>>,
               fs |-> envFs[p], pkgs |-> envPkgs[p] ]
        ELSE IF chk = "reuse"
        THEN [ exc |-> "", env |-> VEnv(library_type, version), log |-> <<>>,
               fs |-> envFs[p], pkgs |-> envPkgs[p] ]
        ELSE IF o = "venv.create"
        THEN [ exc |-> "venv.create failed", env |-> NoEnv, log |-> <<VenvCreate>>,
               fs |-> IF made THEN "dir" ELSE envFs[p],
               pkgs |-> IF made THEN <<>> ELSE envPkgs[p] ]
        ELSE IF o = "sklearn"
        THEN [ exc |-> "pip install failed", env |-> NoEnv,
               log |-> <<VenvCreate, PipInstall(AuxPackage)>>,
               fs |-> "dir", pkgs |-> <<>> ]
        ELSE IF o = "library"
        THEN [ exc |-> "pip install failed", env |-> NoEnv,
               log |-> <<VenvCreate, PipInstall(AuxPackage), PipInstall(lib)>>,
               fs |-> "dir", pkgs |-> <<AuxPackage>> ]
        ELSE [ exc |-> "", env |-> VEnv(library_type, version),
               log |-> <<VenvCreate, PipInstall(AuxPackage), PipInstall(lib)>>,
               fs |-> "dir", pkgs |-> <<AuxPackage, lib>> ]

\* ------------------------------------------------------------------- Case
\* prepare_dir: fails says whether mkdtemp / makedirs raises.  delete_dir is
\* assigned before the call that may raise; so is the absolute dirname.
prepare_dir(self, ds, fails) ==
    IF ~Truthy(self.dirname)
    THEN LET free == TmpDirs \ ds
         IN  IF fails \/ free = {}
             THEN [ self |-> [self EXCEPT !.delete_dir = "True"], dirs |-> ds,
                    exc |-> "mkdtemp failed" ]
             ELSE LET t == CHOOSE t \in free : \A u \in free : t.id <= u.id
                  IN  [ self |-> [self EXCEPT !.delete_dir = "True", !.dirname = t],
                        dirs |-> ds \cup {t}, exc |-> "" ]
    ELSE LET a == abspath(self.dirname)
         IN  [ self |-> [self EXCEPT !.delete_dir = "False", !.dirname = a],
               dirs |-> IF fails THEN ds ELSE ds \cup {a},
               exc |-> IF fails THEN "makedirs failed" ELSE "" ]

\* run_python: write the script, execute it with the environment's python
run_python(f) ==
    [ steps |-> <<"run_python">>,
      exc |-> IF f = "run_python" THEN "python failed" ELSE "" ]

\* (mutant: the isfile test is missing, the executable is run regardless)
run_go_no_isfile(f) ==
    IF f = "go build"
    THEN [steps |-> <<"go build">>, exc |-> "go build failed"]
    ELSE IF f = "no executable"
    THEN [steps |-> <<"go build", "go run">>, exc |-> "no executable found"]
    ELSE [ steps |-> <<"go build", "go run">>,
           exc |-> IF f = "go run" THEN "executable failed" ELSE "" ]

\* run_go: go build, the isfile test on the executable, then run it
run_go(f) ==
    IF f = "go build"
    THEN [steps |-> <<"go build">>, exc |-> "go build failed"]
    ELSE IF f = "no executable"
    THEN [steps |-> <<"go build">>, exc |-> "no executable found"]
    ELSE [ steps |-> <<"go build", "go run">>,
           exc |-> IF f = "go run" THEN "executable failed" ELSE "" ]

\* the abstract compare(): raises CompareError on a mismatch
compare(f) ==
    [ steps |-> <<"compare">>,
      exc |-> IF f = "compare" THEN "CompareError" ELSE "" ]

CaseFaults ==
    {"none", "prepare_dir", "run_python", "go build", "no executable", "go run", "compare"}

\* the try block of Case.run: the steps in order, up to the first that raises
try_block(self, ds, f) ==
    LET p == prepare_dir(self, ds, f = "prepare_dir")
        py == run_python(f)
        go == run_go(f)
        cmp == compare(f)
        done(steps, e) ==
            [ self |-> [p.self EXCEPT !.steps = steps], dirs |-> p.dirs, exc |-> e ]
    IN  IF p.exc # "" THEN done(<<"prepare_dir">>, p.exc)
        ELSE IF py.exc # "" THEN done(<<"prepare_dir">> \o py.steps, py.exc)
        ELSE IF go.exc # "" THEN done(<<"prepare_dir">> \o py.steps \o go.steps, go.exc)
        ELSE done(<<"prepare_dir">> \o py.steps \o go.steps \o cmp.steps, cmp.exc)

\* shutil.rmtree(d): raises on None and on a failing deletion
rmtree(d, ds, rm_ok) ==
    IF d = None THEN [dirs |-> ds, exc |-> "TypeError"]
    ELSE IF d \notin ds THEN [dirs |-> ds, exc |-> "FileNotFoundError"]
    ELSE IF ~rm_ok THEN [dirs |-> ds, exc |-> "rmtree failed"]
    ELSE [dirs |-> ds \ {d}, exc |-> ""]

\* (mutant: the deletion is not guarded by delete_dir)
finally_clause_unguarded(self, ds, rm_ok) ==
    rmtree(self.dirname, ds, rm_ok)

\* the finally clause of Case.run
finally_clause(self, ds, rm_ok) ==
    IF self.delete_dir = "unset" THEN [dirs |-> ds, exc |-> "AttributeError"]
    ELSE IF self.delete_dir = "True" THEN rmtree(self.dirname, ds, rm_ok)
    ELSE [dirs |-> ds, exc |-> ""]

\* (mutant: the deletion follows the try statement instead of being its
\* finally clause, so the return of the except clause skips it)
Case_run_cleanup_after(self, ds, f, rm_ok) ==
    LET t == try_block(self, ds, f)
        fin == IF t.exc # "" THEN [dirs |-> t.dirs, exc |-> ""]
               ELSE finally_clause(t.self, t.dirs, rm_ok)
    IN  [ self |-> t.self,
          dirs |-> fin.dirs,
          failed |-> t.exc # "",
          raised |-> fin.exc,
          ret |-> IF fin.exc # "" THEN NoRet
                  ELSE IF t.exc # ""
                  THEN [returned |-> TRUE, is_success |-> FALSE, reason |-> t.exc]
                  ELSE [returned |-> TRUE, is_success |-> TRUE, reason |-> ""] ]

\* Case.run: try block, except Exception -> (False, str(e)), finally clause,
\* (True, '') when nothing was raised.  An exception of the finally clause
\* replaces the pending return.
Case_run(self, ds, f, rm_ok) ==
    LET t == try_block(self, ds, f)
        fin == finally_clause(t.self, t.dirs, rm_ok)
    IN  [ self |-> t.self,
          dirs |-> fin.dirs,
          failed |-> t.exc # "",
          raised |-> fin.exc,
          ret |-> IF fin.exc # "" THEN NoRet
                  ELSE IF t.exc # ""
                  THEN [returned |-> TRUE, is_success |-> FALSE, reason |-> t.exc]
                  ELSE [returned |-> TRUE, is_success |-> TRUE, reason |-> ""] ]

\* ------------------------------------------------------- compare_matrices
\* an array as np.genfromtxt returns it: its shape and its entries in row
\* order (numbers are integers here: multiples of one unit of precision)
Size(shape) ==
    IF Len(shape) = 0 THEN 1
    ELSE IF Len(shape) = 1 THEN shape[1]
    ELSE shape[1] * shape[2]

Shapes ==
    {<<>>} \cup { <<n>> : n \in 1..MaxEntries }
           \cup { s \in (1..MaxEntries) \X (1..MaxEntries) : s[1] * s[2] <= MaxEntries }

Values == {0, 1}

Matrices ==
    UNION { { [shape |-> s, data |-> d] : d \in [1..Size(s) -> Values] } : s \in Shapes }

\* values of tolerance
Tolerances == {0, 1}

\* values of max_number_of_mismatches_ratio, as fractions
Ratios ==
    { [num |-> 0, den |-> 1], [num |-> 1, den |-> 4], [num |-> 1, den |-> 3],
      [num |-> 1, den |-> 2], [num |-> 1, den |-> 1] }

\* np.abs
Abs(x) == IF x < 0 THEN -x ELSE x

NoResult == [raised |-> "", message |-> <<>>, compared |-> 0, mismatches |-> 0]

NoCmp ==
    [ m1 |-> [shape |-> <<>>, data |-> <<0>>], m2 |-> [shape |-> <<>>, data |-> <<0>>],
      tolerance |-> 0, ratio |-> [num |-> 0, den |-> 1], done |-> FALSE,
      result |-> NoResult ]

\* np.sum(np.abs(m1 - m2) > tolerance)
number_of_mismatches(m1, m2, tolerance) ==
    Cardinality({ i \in 1..Size(m1.shape) : Abs(m1.data[i] - m2.data[i]) > tolerance })

\* (mutant: an entry at exactly the tolerance counts as a mismatch)
compare_matrices_ge_tolerance(m1, m2, tolerance, ratio) ==
    IF m1.shape # m2.shape
    THEN [ raised |-> "CompareError", message |-> <<"shape", m1.shape, m2.shape>>,
           compared |-> 0, mismatches |-> 0 ]
    ELSE LET n == Cardinality({ i \in 1..Size(m1.shape) :
                                  Abs(m1.data[i] - m2.data[i]) >= tolerance })
             size == Size(m1.shape)
         IN  [ raised |-> IF n * ratio.den > ratio.num * size THEN "CompareError" ELSE "",
               message |-> IF n * ratio.den > ratio.num * size
                           THEN <<"mismatches", n, [num |-> ratio.num * size, den |-> ratio.den]>>
                           ELSE <<>>,
               compared |-> size, mismatches |-> n ]

\* (mutant: the budget test is >= instead of >)
compare_matrices_ge_budget(m1, m2, tolerance, ratio) ==
    IF m1.shape # m2.shape
    THEN [ raised |-> "CompareError", message |-> <<"shape", m1.shape, m2.shape>>,
           compared |-> 0, mismatches |-> 0 ]
    ELSE LET n == number_of_mismatches(m1, m2, tolerance)
             size == Size(m1.shape)
         IN  [ raised |-> IF n * ratio.den >= ratio.num * size THEN "CompareError" ELSE "",
               message |-> IF n * ratio.den >= ratio.num * size
                           THEN <<"mismatches", n, [num |-> ratio.num * size, den |-> ratio.den]>>
                           ELSE <<>>,
               compared |-> size, mismatches |-> n ]

\* (mutant: the sizes are compared instead of the shapes)
compare_matrices_size_check(m1, m2, tolerance, ratio) ==
    IF Size(m1.shape) # Size(m2.shape)
    THEN [ raised |-> "CompareError", message |-> <<"shape", m1.shape, m2.shape>>,
           compared |-> 0, mismatches |-> 0 ]
    ELSE LET n == number_of_mismatches(m1, m2, tolerance)
             size == Size(m1.shape)
         IN  [ raised |-> IF n * ratio.den > ratio.num * size THEN "CompareError" ELSE "",
               message |-> IF n * ratio.den > ratio.num * size
                           THEN <<"mismatches", n, [num |-> ratio.num * size, den |-> ratio.den]>>
                           ELSE <<>>,
               compared |-> size, mismatches |-> n ]

\* compare_matrices on the loaded arrays: CompareError when the shapes differ,
\* else when number_of_mismatches > ratio * m1.size (n/1 > num*size/den)
compare_matrices(m1, m2, tolerance, ratio) ==
    IF m1.shape # m2.shape
    THEN [ raised |-> "CompareError", message |-> <<"shape", m1.shape, m2.shape>>,
           compared |-> 0, mismatches |-> 0 ]
    ELSE LET n == number_of_mismatches(m1, m2, tolerance)
             size == Size(m1.shape)
         IN  [ raised |-> IF n * ratio.den > ratio.num * size THEN "CompareError" ELSE "",
               message |-> IF n * ratio.den > ratio.num * size
                           THEN <<"mismatches", n, [num |-> ratio.num * size, den |-> ratio.den]>>
                           ELSE <<>>,
               compared |-> size, mismatches |-> n ]


\* -------------------------------------------------------- ReportFormatter
\* text is a sequence of one-character strings: "1.10" is <<"1", ".", "1", "0">>

\* value of a decimal digit
DigitVal(c) ==
    CASE c = "0" -> 0 [] c = "1" -> 1 [] c = "2" -> 2 [] c = "3" -> 3 [] c = "4" -> 4
      [] c = "5" -> 5 [] c = "6" -> 6 [] c = "7" -> 7 [] c = "8" -> 8 [] c = "9" -> 9

\* code point of a character of a case name
Ord(c) ==
    CASE c = "A" -> 65 [] c = "B" -> 66 [] c = "C" -> 67 [] c = "b" -> 98

\* int(t) of a digit string
RECURSIVE int(_)
int(t) ==
    IF Len(t) = 0 THEN 0
    ELSE int(SubSeq(t, 1, Len(t) - 1)) * 10 + DigitVal(t[Len(t)])

\* t.split('.')
RECURSIVE split(_)
split(t) ==
    IF \A i \in DOMAIN t : t[i] # "." THEN <<t>>
    ELSE LET k == CHOOSE i \in DOMAIN t : t[i] = "." /\ \A j \in 1..(i - 1) : t[j] # "."
         IN  <<SubSeq(t, 1, k - 1)>> \o split(SubSeq(t, k + 1, Len(t)))

\* (mutant: no key, the version strings are sorted as the digits they show)
version_key_no_int(t) ==
    [i \in DOMAIN t |-> IF t[i] = "." THEN 0 - 1 ELSE DigitVal(t[i])]

\* key=lambda s: tuple(map(int, s.split('.')))
version_key(t) ==
    [i \in DOMAIN split(t) |-> int(split(t)[i])]

\* a < b for tuples of integers, as Python compares tuples
TupleLess(a, b) ==
    \E k \in 1..(Len(a) + 1) :
        /\ \A j \in 1..(k - 1) : j <= Len(b) /\ a[j] = b[j]
        /\ k <= Len(b)
        /\ (k <= Len(a) => a[k] < b[k])

\* a < b for strings, as Python compares str
StrLess(a, b) ==
    TupleLess([i \in DOMAIN a |-> Ord(a[i])], [i \in DOMAIN b |-> Ord(b[i])])

\* the sequences that list each element of S once: the orders in which a set
\* may be iterated
Orders(S) ==
    { q \in [1..Cardinality(S) -> S] : \A i, j \in DOMAIN q : q[i] = q[j] => i = j }

\* sorted(set of case names): the names are distinct, the result is unique
sorted_cases(S) ==
    CHOOSE q \in Orders(S) : \A i, j \in DOMAIN q : i < j => StrLess(q[i], q[j])

\* list.insert keeping a stable sort: x goes after every element whose key is
\* not greater than its own
InsertByKey(q, x) ==
    LET n == Cardinality({ i \in DOMAIN q : ~TupleLess(version_key(x), version_key(q[i])) })
    IN  SubSeq(q, 1, n) \o <<x>> \o SubSeq(q, n + 1, Len(q))

\* sorted(it, key=...) of the versions in iteration order it (stable)
RECURSIVE sorted_versions(_)
sorted_versions(it) ==
    IF it = <<>> THEN <<>>
    ELSE InsertByKey(sorted_versions(SubSeq(it, 1, Len(it) - 1)), it[Len(it)])

\* the libraries, case names and versions of the outcomes
LibrariesOf(outs) == { outs[j].env.library : j \in DOMAIN outs }
CasesOf(outs, library) ==
    { outs[j].case : j \in { k \in DOMAIN outs : outs[k].env.library = library } }
VersionsOf(outs, library) ==
    { outs[j].env.version : j \in { k \in DOMAIN outs : outs[k].env.library = library } }

\* (mutant: an entry already in the map is kept)
RECURSIVE version_map_first_wins(_, _, _)
version_map_first_wins(outs, library, c) ==
    IF outs = <<>> THEN <<>>
    ELSE LET o == outs[Len(outs)]
             before == version_map_first_wins(SubSeq(outs, 1, Len(outs) - 1), library, c)
         IN  IF o.env.library = library /\ o.case = c
             THEN before @@ (o.env.version :> o.is_success)
             ELSE before

\* the dict comprehension {outcome.env.version: outcome.is_success for ...}:
\* a later outcome of a version overwrites the entry of an earlier one
RECURSIVE version_map(_, _, _)
version_map(outs, library, c) ==
    IF outs = <<>> THEN <<>>
    ELSE LET o == outs[Len(outs)]
             before == version_map(SubSeq(outs, 1, Len(outs) - 1), library, c)
         IN  IF o.env.library = library /\ o.case = c
             THEN (o.env.version :> o.is_success) @@ before
             ELSE before

\* (mutant: `if is_success:` instead of `if is_success is not None:`)
cell_truthy(vm, version) ==
    IF version \in DOMAIN vm /\ vm[version] THEN <<"V">> ELSE <<"-">>

\* row[i]: '-' unless version_map.get(version) is not None, then 'V' or 'X'
cell(vm, version) ==
    IF version \in DOMAIN vm
    THEN IF vm[version] THEN <<"V">> ELSE <<"X">>
    ELSE <<"-">>

\* '{: ^w}'.format(t): centred, the odd blank on the right
Center(t, w) ==
    [i \in 1..((w - Len(t)) \div 2) |-> " "] \o t \o
    [i \in 1..((w - Len(t)) - ((w - Len(t)) \div 2)) |-> " "]

RECURSIVE Concat(_)
Concat(qs) == IF qs = <<>> THEN <<>> ELSE qs[1] \o Concat(Tail(qs))

\* _markdown_table: header line, outline of dashes, one line per further row
_markdown_table(list_of_rows) ==
    IF Len(list_of_rows) = 0 THEN <<"\n">>
    ELSE LET ncols == Len(list_of_rows[1])
             fields_len == [j \in 1..ncols |->
                 CHOOSE w \in { Len(list_of_rows[i][j]) : i \in DOMAIN list_of_rows } :
                     \A i \in DOMAIN list_of_rows : Len(list_of_rows[i][j]) <= w]
             line(row) ==
                 <<"|">> \o Concat([j \in 1..ncols |-> Center(row[j], fields_len[j]) \o <<"|">>])
                         \o <<"\n">>
             outline_list == [j \in 1..ncols |-> [i \in 1..fields_len[j] |-> "-"]]
         IN  line(list_of_rows[1]) \o line(outline_list) \o
             Concat([i \in 1..(Len(list_of_rows) - 1) |-> line(list_of_rows[i + 1])])

\* one `for library in libraries` round of report: the grid and its table
section(outs, library, version_order) ==
    LET cases == sorted_cases(CasesOf(outs, library))
        versions == sorted_versions(version_order)
        header == << <<"C", "a", "s", "e">> >> \o versions
        list_of_rows ==
            <<header>> \o
            [i \in DOMAIN cases |->
                <<cases[i]>> \o
                [j \in DOMAIN versions |->
                    cell(version_map(outs, library, cases[i]), versions[j])]]
    IN  [ library |-> library, rows |-> list_of_rows, table |-> _markdown_table(list_of_rows) ]

\* report(): head text, one section per library in the iteration order of
\* set(libraries), tail text with the time of generation
report(outs, library_order, version_order, now) ==
    [ head |-> "head_text",
      sections |-> [k \in DOMAIN library_order |->
                       section(outs, library_order[k], version_order[library_order[k]])],
      legend |-> "X - not passed, V - passed",
      generated |-> now ]

NoReport == [head |-> "", sections |-> <<>>, legend |-> "", generated |-> ""]
NoRep == [last |-> NoReport, prev |-> NoReport]

\* ------------------------------------------------------------- CaseRunner
\* the Outcome namedtuple built in run_single
Outcome(e, case_name, is_success, reason) ==
    [env |-> e, case |-> case_name, is_success |-> is_success, reason |-> reason]

\* (mutant: run_single catches what activate raises and goes on to record it)
after_activate_caught(res) ==
    IF res.exc # "" THEN "append" ELSE "case"

\* run_single has no handler around activate: what it raises leaves
\* run_single and the loop of CaseRunner.run
after_activate(res) ==
    IF res.exc # "" THEN "raised" ELSE "case"

Init ==
    /\ reuse_envs \in BOOLEAN
    /\ envFs \in [EnvPaths -> {"absent", "file"}]
    /\ Cardinality({p \in EnvPaths : envFs[p] = "file"}) <= 1
    /\ envPkgs = [p \in EnvPaths |-> <<>>]
    /\ dirs = {}
    /\ outcomes = <<>>
    /\ pc = "idle"
    /\ runner = NoRunner
    /\ act = NoAct
    /\ env = NoEnv
    /\ lastEnv = [p \in EnvPaths |-> NoEnv]
    /\ case = NoCase
    /\ ret = NoRet
    /\ exc = NoExc
    /\ faults = 0
    /\ cmpCall = NoCmp
    /\ rep = NoRep

\* CaseRunner.run(case_class, dirname) is called: the loop over
\* case_class.versions starts (a class without versions returns at once)
RunnerRun(case_class, dirname) ==
    /\ pc \in {"idle", "returned", "raised"}
    /\ Len(outcomes) + Len(case_class.versions) <= MaxOutcomes
    /\ runner' = [ case_class |-> case_class, dirname |-> dirname, i |-> 1,
                   base |-> outcomes, pre |-> outcomes, cases_run |-> <<>>,
                   case_failures |-> <<>> ]
    /\ pc' = IF case_class.versions = <<>> THEN "returned" ELSE "run_single"
    /\ act' = NoAct
    /\ env' = NoEnv
    /\ case' = NoCase
    /\ ret' = NoRet
    /\ exc' = NoExc
    /\ UNCHANGED << reuse_envs, envFs, envPkgs, dirs, outcomes, lastEnv, faults, cmpCall, rep >>

\* run_single, first statement: self.env_builder.activate(library, version)
RunSingleActivate(o, made) ==
    /\ pc = "run_single"
    /\ LET library == runner.case_class.library
           version == runner.case_class.versions[runner.i]
           p == _env_full_path(library, version)
           res == activate(library, version, o, made)
           fault == IF res.exc \notin {"", "should be directory"} THEN 1 ELSE 0
       IN  /\ (o = "ok") = (fault = 0)
           /\ made \/ o = "venv.create"
           /\ faults + fault <= MaxFaults
           /\ faults' = faults + fault
           /\ act' = [ library |-> library, version |-> version, before |-> envFs[p],
                       prior |-> lastEnv[p], log |-> res.log, fault |-> o ]
           /\ envFs' = [envFs EXCEPT ![p] = res.fs]
           /\ envPkgs' = [envPkgs EXCEPT ![p] = res.pkgs]
           /\ env' = res.env
           /\ lastEnv' = IF res.exc = "" THEN [lastEnv EXCEPT ![p] = res.env] ELSE lastEnv
           /\ pc' = after_activate(res)
           /\ exc' = IF after_activate(res) = "raised"
                     THEN [from |-> "activate", kind |-> res.exc]
                     ELSE NoExc
           /\ ret' = IF res.exc # ""
                     THEN [returned |-> FALSE, is_success |-> FALSE, reason |-> res.exc]
                     ELSE NoRet
           /\ runner' = [runner EXCEPT !.pre = outcomes]
           /\ case' = NoCase
    /\ UNCHANGED << reuse_envs, dirs, outcomes, cmpCall, rep >>

\* run_single, second and third statement: the case is instantiated and
\* case.run(env) runs to its end.  f names the step of the try block that
\* raises, rm_ok says whether a deletion by rmtree succeeds.
RunSingleCase(f, rm_ok) ==
    /\ pc = "case"
    /\ LET self == [ venv |-> env, dirname |-> runner.dirname,
                     delete_dir |-> "unset", steps |-> <<>> ]
           t == try_block(self, dirs, f)
           r == Case_run(self, dirs, f, rm_ok)
           version == runner.case_class.versions[runner.i]
           fault == (IF f # "none" THEN 1 ELSE 0) + (IF r.raised = "rmtree failed" THEN 1 ELSE 0)
       IN  /\ rm_ok \/ r.raised = "rmtree failed"
           /\ faults + fault <= MaxFaults
           /\ faults' = faults + fault
           /\ case' = r.self
           /\ dirs' = r.dirs
           /\ ret' = r.ret
           /\ runner' = [ runner EXCEPT
                            !.cases_run = Append(@, version),
                            !.case_failures = IF r.failed THEN Append(@, version) ELSE @ ]
           /\ pc' = IF r.raised # "" THEN "raised" ELSE "append"
           /\ exc' = IF r.raised # ""
                     THEN [from |-> "Case.run", kind |-> r.raised]
                     ELSE NoExc
    /\ UNCHANGED << reuse_envs, envFs, envPkgs, outcomes, act, env, lastEnv, cmpCall, rep >>

\* (mutant: only failures are recorded)
RunSingleAppendFailuresOnly ==
    /\ pc = "append"
    /\ outcomes' = IF ret.is_success THEN outcomes
                   ELSE Append(outcomes,
                               Outcome(env, runner.case_class.name, ret.is_success, ret.reason))
    /\ IF runner.i < Len(runner.case_class.versions)
       THEN /\ runner' = [runner EXCEPT !.i = @ + 1]
            /\ pc' = "run_single"
       ELSE /\ runner' = runner
            /\ pc' = "returned"
    /\ UNCHANGED << reuse_envs, envFs, envPkgs, dirs, act, env, lastEnv, case, ret,
                    exc, faults, cmpCall, rep >>

\* (mutant: an Outcome of the same case and version is replaced, not kept)
RunSingleAppendReplacing ==
    /\ pc = "append"
    /\ LET o == Outcome(env, runner.case_class.name, ret.is_success, ret.reason)
           same(x) == x.case = o.case /\ x.env = o.env
       IN  outcomes' = IF \E j \in DOMAIN outcomes : same(outcomes[j])
                       THEN [j \in DOMAIN outcomes |->
                               IF same(outcomes[j]) THEN o ELSE outcomes[j]]
                       ELSE Append(outcomes, o)
    /\ IF runner.i < Len(runner.case_class.versions)
       THEN /\ runner' = [runner EXCEPT !.i = @ + 1]
            /\ pc' = "run_single"
       ELSE /\ runner' = runner
            /\ pc' = "returned"
    /\ UNCHANGED << reuse_envs, envFs, envPkgs, dirs, act, env, lastEnv, case, ret,
                    exc, faults, cmpCall, rep >>

\* run_single, last statements: the Outcome is built and appended; the loop
\* of CaseRunner.run then takes the next version or ends
RunSingleAppend ==
    /\ pc = "append"
    /\ outcomes' = Append(outcomes,
                          Outcome(env, runner.case_class.name, ret.is_success, ret.reason))
    /\ IF runner.i < Len(runner.case_class.versions)
       THEN /\ runner' = [runner EXCEPT !.i = @ + 1]
            /\ pc' = "run_single"
       ELSE /\ runner' = runner
            /\ pc' = "returned"
    /\ UNCHANGED << reuse_envs, envFs, envPkgs, dirs, act, env, lastEnv, case, ret,
                    exc, faults, cmpCall, rep >>

Next ==
    \/ \E c \in CaseClasses, d \in {None, SuppliedDir} : RunnerRun(c, d)
    \/ \E o \in ActivateFaults, made \in BOOLEAN : RunSingleActivate(o, made)
    \/ \E f \in CaseFaults, rm_ok \in BOOLEAN : RunSingleCase(f, rm_ok)
    \/ RunSingleAppend

Spec == Init /\ [][Next]_vars

\* ---------------------------------------- compare_matrices on its own
hvars == << reuse_envs, envFs, envPkgs, dirs, pc, runner, act, env, lastEnv, case,
            ret, exc, faults >>

\* the harness as constructed, before any CaseRunner.run
HarnessIdle ==
    /\ reuse_envs = FALSE
    /\ envFs = [p \in EnvPaths |-> "absent"]
    /\ envPkgs = [p \in EnvPaths |-> <<>>]
    /\ dirs = {}
    /\ pc = "idle"
    /\ runner = NoRunner
    /\ act = NoAct
    /\ env = NoEnv
    /\ lastEnv = [p \in EnvPaths |-> NoEnv]
    /\ case = NoCase
    /\ ret = NoRet
    /\ exc = NoExc
    /\ faults = 0

InitCompare ==
    /\ HarnessIdle
    /\ outcomes = <<>>
    /\ rep = NoRep
    /\ cmpCall \in { [ m1 |-> a, m2 |-> b, tolerance |-> t, ratio |-> r, done |-> FALSE,
                       result |-> NoResult ] :
                     a \in Matrices, b \in Matrices, t \in Tolerances, r \in Ratios }

\* a concrete compare() calls compare_matrices on the two loaded arrays
CompareMatrices ==
    /\ ~cmpCall.done
    /\ cmpCall' = [ cmpCall EXCEPT
                      !.done = TRUE,
                      !.result = compare_matrices(cmpCall.m1, cmpCall.m2,
                                                  cmpCall.tolerance, cmpCall.ratio) ]
    /\ UNCHANGED << hvars, outcomes, rep >>

NextCompare == CompareMatrices

SpecCompare == InitCompare /\ [][NextCompare]_vars

\* ---------------------------------------- ReportFormatter on its own
\* the Outcomes a formatter may be handed: two case names, four version
\* strings, two libraries
ReportOutcomes ==
    { Outcome(VEnv("XGBOOST", v), <<"A", "b">>, ok, IF ok THEN "" ELSE "CompareError") :
        v \in { <<"1", ".", "2">>, <<"1", ".", "1", "0">> }, ok \in BOOLEAN }
    \cup
    { Outcome(VEnv("XGBOOST", v), <<"A", "b">>, TRUE, "") :
        v \in { <<"0", ".", "9">>, <<"1", ".", "0", "2">> } }
    \cup
    { Outcome(VEnv("XGBOOST", <<"1", ".", "2">>), <<"B">>, TRUE, ""),
      Outcome(VEnv("LIGHTGBM", <<"1", ".", "2">>), <<"B">>, TRUE, "") }

\* datetime.now().strftime('%Y-%m-%d %H:%M') at the first and the second call
Times == <<"2026-11-05 18:00", "2026-11-05 18:01">>

InitReport ==
    /\ HarnessIdle
    /\ cmpCall = NoCmp
    /\ rep = NoRep
    /\ outcomes \in UNION { [1..k -> ReportOutcomes] : k \in 0..MaxReportLen }

\* ReportFormatter(outcomes).report(): library_order and version_order are the
\* orders in which the two sets happen to be iterated
Report(library_order, version_order) ==
    /\ rep.prev = NoReport
    /\ rep' = [ last |-> report(outcomes, library_order, version_order,
                                IF rep.last = NoReport THEN Times[1] ELSE Times[2]),
                prev |-> rep.last ]
    /\ UNCHANGED << hvars, outcomes, cmpCall >>

NextReport ==
    \E library_order \in Orders(LibrariesOf(outcomes)) :
        \E version_order \in
              { f \in [ LibrariesOf(outcomes) ->
                        UNION { Orders(VersionsOf(outcomes, l)) : l \in LibrariesOf(outcomes) } ] :
                    \A l \in LibrariesOf(outcomes) : f[l] \in Orders(VersionsOf(outcomes, l)) } :
            Report(library_order, version_order)

SpecReport == InitReport /\ [][NextReport]_vars

\* ---------------------------------------------------------------- claims
\* Case.run of the current run_single has ended (by return or by raise)
CaseRunEnded == case.steps # <<>>

WorkDir == abspath(SuppliedDir)

\* the Outcomes appended since the current CaseRunner.run began
Gained == SubSeq(outcomes, Len(runner.base) + 1, Len(outcomes))

\* C1: Case.run never raises: whichever step fails, the cleanup included, it
\* ends by returning a (success, reason) pair.
C1_RunNeverRaises ==
    CaseRunEnded => (ret.returned /\ exc.from # "Case.run")

C3_SuppliedDirExists ==
    (CaseRunEnded /\ runner.dirname = SuppliedDir) => WorkDir \in dirs

\* C3 as amended: the supplied working directory is never deleted (once it
\* exists it exists ever after, across runs), and after a Case.run in which
\* prepare_dir's creation did not fail it exists.
C3_SuppliedDirKept ==
    [][ /\ (WorkDir \in dirs => WorkDir \in dirs')
        /\ (CaseRunEnded' /\ runner'.dirname = SuppliedDir /\ Len(case'.steps) > 1)
              => WorkDir \in dirs' ]_vars

\* C3 witness: a second consecutive run in the supplied directory failed after
\* prepare_dir and returned, and the directory is there.
C3_Witness ==
    /\ CaseRunEnded
    /\ runner.dirname = SuppliedDir
    /\ ret.returned /\ ~ret.is_success
    /\ Len(case.steps) > 1
    /\ outcomes # <<>>
    /\ WorkDir \in dirs

\* C4: with reuse enabled, an activate that returns after an earlier activate
\* of the same (variant, version) returned gives the same path and name, and
\* made no venv.create and no pip install.
C4_ReuseIsIdempotent ==
    (reuse_envs /\ env # NoEnv /\ act.prior # NoEnv)
        => /\ env.env_dir = act.prior.env_dir
           /\ env.env_name = act.prior.env_name
           /\ act.log = <<>>

\* C4 witness: a second activate of one (variant, version) returned under reuse.
C4_Witness ==
    reuse_envs /\ env # NoEnv /\ act.prior # NoEnv /\ act.prior.version = env.version

\* C5: when CaseRunner.run returns, the outcome sequence has gained exactly
\* one Outcome per declared version, in declaration order, after the earlier ones.
C5_OneOutcomePerVersion ==
    pc = "returned"
        => /\ Len(outcomes) = Len(runner.base) + Len(runner.case_class.versions)
           /\ SubSeq(outcomes, 1, Len(runner.base)) = runner.base
           /\ \A i \in DOMAIN runner.case_class.versions :
                /\ Gained[i].case = runner.case_class.name
                /\ Gained[i].env.library = runner.case_class.library
                /\ Gained[i].env.version = runner.case_class.versions[i]

\* C5 witness: a run over two versions returned, one of them having failed.
C5_Witness ==
    /\ pc = "returned"
    /\ Len(runner.case_class.versions) = 2
    /\ runner.case_failures # <<>>

\* C6: a failure inside a case's run() never aborts the harness: unless an
\* activation raised, a CaseRunner.run in which a case step failed ends having
\* taken every declared version, each failed run recorded as non-success.
C6_CaseFailureContained ==
    (pc \in {"returned", "raised"} /\ runner.case_failures # <<>> /\ exc.from # "activate")
        => /\ pc = "returned"
           /\ runner.i = Len(runner.case_class.versions)
           /\ \A k \in DOMAIN runner.case_failures :
                \E j \in DOMAIN Gained :
                    /\ Gained[j].env.version = runner.case_failures[k]
                    /\ ~Gained[j].is_success

\* C7: an activate that does not take the reuse path creates the environment,
\* installs the auxiliary dependency, then the package of the requested
\* variant pinned to the version, for every variant.
C7_RequestedVariantInstalledLast ==
    (env # NoEnv /\ act.log # <<>>)
        => act.log = << VenvCreate, PipInstall(AuxPackage),
                        PipInstall([name |-> Lower(act.library), pin |-> act.version]) >>

\* C8: an activate whose path holds something that is no directory raises,
\* with and without reuse, before any venv.create or pip install, returns no
\* VEnv and leaves the entry as it was.
C8_NotADirectoryFailsFast ==
    act.before = "file"
        => /\ pc = "raised"
           /\ exc = [from |-> "activate", kind |-> "should be directory"]
           /\ act.log = <<>>
           /\ env = NoEnv
           /\ envFs[_env_full_path(act.library, act.version)] = "file"

\* C8 witness: such an activate raised with reuse disabled.
C8_Witness ==
    act.before = "file" /\ ~reuse_envs /\ pc = "raised"

\* C9 as claimed: when the not-a-directory error is raised during a
\* CaseRunner.run, no Case has been run and no Outcome recorded in that run.
C9_NoCaseBeforeConfigError ==
    (pc = "raised" /\ exc.kind = "should be directory")
        => (runner.cases_run = <<>> /\ outcomes = runner.base)

\* C9 as amended: the not-a-directory error leaves CaseRunner.run before the
\* case of that version is instantiated or run and is not turned into an
\* Outcome; the versions before it have each run and left their Outcome.
C9_NoCaseForThatVersion ==
    act.before = "file"
        => /\ pc = "raised" /\ exc.from = "activate"
           /\ case = NoCase
           /\ \A k \in DOMAIN runner.cases_run : runner.cases_run[k] # act.version
           /\ outcomes = runner.pre
           /\ Len(Gained) = runner.i - 1
           /\ \A j \in DOMAIN Gained : Gained[j].env.version # act.version

\* C9 witness: the error was raised for a later version, after a case had run.
C9_Witness ==
    act.before = "file" /\ pc = "raised" /\ runner.cases_run # <<>> /\ Gained # <<>>

\* C10: a pip install that fails during activate propagates out of run_single:
\* no case is instantiated or run and the outcome sequence is as it was.
C10_InstallFailurePropagates ==
    act.fault \in {"sklearn", "library"}
        => /\ pc = "raised"
           /\ exc = [from |-> "activate", kind |-> "pip install failed"]
           /\ env = NoEnv
           /\ case = NoCase
           /\ \A k \in DOMAIN runner.cases_run : runner.cases_run[k] # act.version
           /\ outcomes = runner.pre

\* C10 witness: the pinned library failed to install for a second version.
C10_Witness ==
    act.fault = "library" /\ pc = "raised" /\ runner.i = 2 /\ Gained # <<>>

\* C11: the outcome sequence is append-only: a step changes it only by adding
\* one Outcome at its end, every run_single that returns adds one, and an
\* Outcome of the same (case, version) is added again, not replaced.
C11_OutcomesAppendOnly ==
    [][ /\ Len(outcomes') <= Len(outcomes) + 1
        /\ SubSeq(outcomes', 1, Len(outcomes)) = outcomes
        /\ pc = "append" => Len(outcomes') = Len(outcomes) + 1 ]_vars

\* C11 witness: the same (case, version) was run twice and left two Outcomes.
C11_Witness ==
    /\ Len(outcomes) = 2
    /\ outcomes[1].case = outcomes[2].case
    /\ outcomes[1].env = outcomes[2].env

\* the step of Case.run in which an exception with this message is raised
RaisedIn(reason) ==
    CASE reason \in {"mkdtemp failed", "makedirs failed"} -> "prepare_dir"
      [] reason = "python failed" -> "run_python"
      [] reason \in {"go build failed", "no executable found"} -> "go build"
      [] reason = "executable failed" -> "go run"
      [] reason = "CompareError" -> "compare"
      [] OTHER -> "none"

AllSteps == <<"prepare_dir", "run_python", "go build", "go run", "compare">>

\* C19: the steps of one Case.run are an initial part of prepare_dir,
\* reference run, port build, port run, compare; the step that raised is the
\* last one executed; (True, '') is returned only after all of them.
C19_StepsInOrder ==
    CaseRunEnded
        => /\ case.steps = SubSeq(AllSteps, 1, Len(case.steps))
           /\ (ret.returned /\ ret.is_success) => case.steps = AllSteps
           /\ (ret.returned /\ ~ret.is_success)
                 => case.steps[Len(case.steps)] = RaisedIn(ret.reason)

\* C19 witness: the build left no executable; the run ended after the build.
C19_Witness ==
    /\ CaseRunEnded
    /\ ret.returned /\ ret.reason = "no executable found"
    /\ case.steps = <<"prepare_dir", "run_python", "go build">>

\* C20: every VEnv that activate returns, the reuse path included, denotes an
\* environment in which the auxiliary dependency and the pinned library were
\* both installed.
C20_ReturnedEnvComplete ==
    env # NoEnv
        => envPkgs[env.env_dir] = <<AuxPackage, LibraryPackage(env.library, env.version)>>

\* ---- claims about compare_matrices (SpecCompare)
\* the entries of the call whose absolute difference exceeds the tolerance
Exceeding ==
    { i \in 1..Size(cmpCall.m1.shape) :
        \/ cmpCall.m1.data[i] - cmpCall.m2.data[i] > cmpCall.tolerance
        \/ cmpCall.m2.data[i] - cmpCall.m1.data[i] > cmpCall.tolerance }

Total == Size(cmpCall.m1.shape)

\* floor and ceiling of max_mismatch_ratio * total
FloorAllowed == (cmpCall.ratio.num * Total) \div cmpCall.ratio.den
CeilAllowed == (cmpCall.ratio.num * Total + cmpCall.ratio.den - 1) \div cmpCall.ratio.den

EqualShapeCompared == cmpCall.done /\ cmpCall.m1.shape = cmpCall.m2.shape

\* C12 as stated: on equal shapes, ceil(ratio * total) + 1 exceeding entries
\* fail with CompareError and exactly ceil(ratio * total) succeed.
C12_BoundaryAtCeil ==
    EqualShapeCompared =>
        /\ Cardinality(Exceeding) = CeilAllowed + 1 => cmpCall.result.raised = "CompareError"
        /\ Cardinality(Exceeding) = CeilAllowed => cmpCall.result.raised = ""

\* C12 amended: on equal shapes the call fails exactly when the number of
\* exceeding entries is above ratio * total, so the largest passing count is
\* floor(ratio * total): floor + 1 fails, floor passes, and ceil passes only
\* when ratio * total is a whole number.
C12_BoundaryAtFloor ==
    EqualShapeCompared =>
        /\ Cardinality(Exceeding) = FloorAllowed + 1 => cmpCall.result.raised = "CompareError"
        /\ Cardinality(Exceeding) = FloorAllowed => cmpCall.result.raised = ""
        /\ Cardinality(Exceeding) = CeilAllowed + 1 => cmpCall.result.raised = "CompareError"
        /\ (cmpCall.result.raised = "CompareError") <=> (Cardinality(Exceeding) > FloorAllowed)
        /\ cmpCall.result.raised = "CompareError" =>
              cmpCall.result.message[1] = "mismatches"
              /\ cmpCall.result.message[2] = Cardinality(Exceeding)

\* a passing call at the allowed count where ratio * total is not whole
C12_Witness ==
    /\ EqualShapeCompared
    /\ (cmpCall.ratio.num * Total) % cmpCall.ratio.den # 0
    /\ FloorAllowed > 0
    /\ Cardinality(Exceeding) = FloorAllowed
    /\ cmpCall.result.raised = ""

\* C13: on equal shapes with every absolute difference at most the tolerance,
\* compare_matrices raises nothing, whatever max_mismatch_ratio is.
C13_WithinToleranceSucceeds ==
    ( /\ EqualShapeCompared
      /\ \A i \in 1..Total :
            /\ cmpCall.m1.data[i] - cmpCall.m2.data[i] <= cmpCall.tolerance
            /\ cmpCall.m2.data[i] - cmpCall.m1.data[i] <= cmpCall.tolerance )
    => cmpCall.result.raised = ""

\* a passing call with ratio 0 and an entry whose difference is the tolerance
C13_Witness ==
    /\ EqualShapeCompared
    /\ cmpCall.ratio.num = 0
    /\ cmpCall.tolerance > 0
    /\ \E i \in 1..Total : cmpCall.m1.data[i] - cmpCall.m2.data[i] = cmpCall.tolerance
    /\ Exceeding = {}
    /\ cmpCall.result.raised = ""

\* C14: on differing shapes compare_matrices raises CompareError naming both
\* shapes, whatever the tolerance, the ratio and the entries, and no entry has
\* been compared.
C14_ShapeMismatchFails ==
    (cmpCall.done /\ cmpCall.m1.shape # cmpCall.m2.shape) =>
        /\ cmpCall.result.raised = "CompareError"
        /\ cmpCall.result.message = <<"shape", cmpCall.m1.shape, cmpCall.m2.shape>>
        /\ cmpCall.result.compared = 0

\* two arrays with the same entries in different shapes, and the widest budget
C14_Witness ==
    /\ cmpCall.done
    /\ cmpCall.m1.shape # cmpCall.m2.shape
    /\ cmpCall.m1.data = cmpCall.m2.data
    /\ cmpCall.ratio.num = cmpCall.ratio.den
    /\ cmpCall.result.raised = "CompareError"

\* ---- claims about ReportFormatter.report (SpecReport)
Rendered == rep.last # NoReport

SectionsOf(r) == { r.sections[k] : k \in DOMAIN r.sections }

\* the version columns of a section: its header row without the leading `Case`
Columns(sec) == Tail(sec.rows[1])

\* the positions in outs of the outcomes of one (library, case, version)
OutcomesAt(outs, library, c, v) ==
    { k \in DOMAIN outs :
        outs[k].env.library = library /\ outs[k].case = c /\ outs[k].env.version = v }

LastAt(outs, library, c, v) ==
    CHOOSE k \in OutcomesAt(outs, library, c, v) :
        \A j \in OutcomesAt(outs, library, c, v) : j <= k

\* rows and columns of every section are the distinct case names and versions
\* of its library
GridShape(r, outs) ==
    \A sec \in SectionsOf(r) :
        /\ sec.rows[1][1] = <<"C", "a", "s", "e">>
        /\ { Columns(sec)[j] : j \in DOMAIN Columns(sec) } = VersionsOf(outs, sec.library)
        /\ Len(Columns(sec)) = Cardinality(VersionsOf(outs, sec.library))
        /\ { sec.rows[i][1] : i \in 2..Len(sec.rows) } = CasesOf(outs, sec.library)
        /\ Len(sec.rows) = 1 + Cardinality(CasesOf(outs, sec.library))
        /\ \A i \in 2..Len(sec.rows) : Len(sec.rows[i]) = Len(sec.rows[1])

\* C15 as stated: V if a passing Outcome exists for the (case, version), X if a
\* failing one exists, `-` if none exists; rows and columns are the distinct
\* case names and versions of the variant.
C15_CellsByExistence ==
    Rendered =>
        /\ GridShape(rep.last, outcomes)
        /\ \A sec \in SectionsOf(rep.last) :
              \A i \in 2..Len(sec.rows) : \A j \in 2..Len(sec.rows[1]) :
                  LET at == OutcomesAt(outcomes, sec.library, sec.rows[i][1], sec.rows[1][j])
                  IN  /\ (\E k \in at : outcomes[k].is_success) => sec.rows[i][j] = <<"V">>
                      /\ (\E k \in at : ~outcomes[k].is_success) => sec.rows[i][j] = <<"X">>
                      /\ at = {} => sec.rows[i][j] = <<"-">>

\* C15 amended: the cell is `-` when no Outcome exists for the (case, version),
\* else V when the last Outcome recorded for it passed and X when it failed;
\* rows and columns are the distinct case names and versions of the variant.
C15_CellsByLastOutcome ==
    Rendered =>
        /\ GridShape(rep.last, outcomes)
        /\ \A sec \in SectionsOf(rep.last) :
              \A i \in 2..Len(sec.rows) : \A j \in 2..Len(sec.rows[1]) :
                  LET c == sec.rows[i][1]
                      v == sec.rows[1][j]
                      at == OutcomesAt(outcomes, sec.library, c, v)
                  IN  sec.rows[i][j] =
                          IF at = {} THEN <<"-">>
                          ELSE IF outcomes[LastAt(outcomes, sec.library, c, v)].is_success
                               THEN <<"V">> ELSE <<"X">>

\* a rendered grid that shows a V, an X and a `-`
C15_Witness ==
    /\ Rendered
    /\ \E sec \in SectionsOf(rep.last) :
          \A mark \in { <<"V">>, <<"X">>, <<"-">> } :
              \E i \in 2..Len(sec.rows) : \E j \in 2..Len(sec.rows[1]) : sec.rows[i][j] = mark

\* the cell of every (case, version) recorded more than once shows the last
\* of its outcomes
LastWriteWins(r, outs) ==
    \A sec \in SectionsOf(r) :
        \A i \in 2..Len(sec.rows) : \A j \in 2..Len(sec.rows[1]) :
            LET c == sec.rows[i][1]
                v == sec.rows[1][j]
            IN  Cardinality(OutcomesAt(outs, sec.library, c, v)) > 1 =>
                    sec.rows[i][j] =
                        IF outs[LastAt(outs, sec.library, c, v)].is_success
                        THEN <<"V">> ELSE <<"X">>

\* C16: when a (case, version) of a variant has several Outcomes, the rendered
\* cell reflects the last of them, and rendering leaves every Outcome stored.
C16_LastWriteWins ==
    [][ rep'.last # NoReport => (LastWriteWins(rep'.last, outcomes') /\ outcomes' = outcomes) ]_vars

\* a pair recorded as passed and then as failed, rendered X, both still stored
C16_Witness ==
    /\ Rendered
    /\ \E k1, k2 \in DOMAIN outcomes :
          /\ k1 < k2
          /\ outcomes[k1].env = outcomes[k2].env
          /\ outcomes[k1].case = outcomes[k2].case
          /\ outcomes[k1].is_success /\ ~outcomes[k2].is_success
          /\ k2 = LastAt(outcomes, outcomes[k2].env.library, outcomes[k2].case,
                         outcomes[k2].env.version)
          /\ \E sec \in SectionsOf(rep.last) :
                /\ sec.library = outcomes[k2].env.library
                /\ \E i \in 2..Len(sec.rows) : \E j \in 2..Len(sec.rows[1]) :
                      /\ sec.rows[i][1] = outcomes[k2].case
                      /\ sec.rows[1][j] = outcomes[k2].env.version
                      /\ sec.rows[i][j] = <<"X">>

\* the dot-separated components of the version strings in use, as integers
Components(t) ==
    CASE t = <<"1", ".", "2">> -> <<1, 2>>
      [] t = <<"1", ".", "1", "0">> -> <<1, 10>>
      [] t = <<"0", ".", "9">> -> <<0, 9>>
      [] t = <<"1", ".", "0", "2">> -> <<1, 2>>

\* component-wise integer comparison of two versions
VersionBefore(a, b) ==
    \/ Components(a)[1] < Components(b)[1]
    \/ Components(a)[1] = Components(b)[1] /\ Components(a)[2] < Components(b)[2]

\* C17 as stated: the version columns of each section are the distinct version
\* strings of the variant in strictly ascending component-wise integer order.
C17_ColumnsStrictlyAscending ==
    Rendered =>
        \A sec \in SectionsOf(rep.last) :
            /\ { Columns(sec)[j] : j \in DOMAIN Columns(sec) } = VersionsOf(outcomes, sec.library)
            /\ \A i, j \in DOMAIN Columns(sec) :
                  i < j => VersionBefore(Columns(sec)[i], Columns(sec)[j])

\* C17 amended: the version columns of each section list each distinct version
\* string of the variant once and never place a version before one that is
\* smaller under component-wise integer comparison; versions whose components
\* are equal as integers ("1.2" and "1.02") are adjacent, in either order.
C17_ColumnsAscending ==
    Rendered =>
        \A sec \in SectionsOf(rep.last) :
            /\ { Columns(sec)[j] : j \in DOMAIN Columns(sec) } = VersionsOf(outcomes, sec.library)
            /\ \A i, j \in DOMAIN Columns(sec) :
                  i < j => /\ Columns(sec)[i] # Columns(sec)[j]
                           /\ ~VersionBefore(Columns(sec)[j], Columns(sec)[i])
                           /\ Components(Columns(sec)[i]) # Components(Columns(sec)[j])
                                 => VersionBefore(Columns(sec)[i], Columns(sec)[j])

\* outcomes recorded for 1.2, 1.10, 0.9 in that order, rendered 0.9, 1.2, 1.10
C17_Witness ==
    /\ Rendered
    /\ Len(outcomes) = 3
    /\ [k \in 1..3 |-> outcomes[k].env.version] =
          << <<"1", ".", "2">>, <<"1", ".", "1", "0">>, <<"0", ".", "9">> >>
    /\ \E sec \in SectionsOf(rep.last) :
          Columns(sec) = << <<"0", ".", "9">>, <<"1", ".", "2">>, <<"1", ".", "1", "0">> >>

\* C18: two renderings of the same outcomes have the same sections, rows and
\* columns in the same order (they differ at most in the generation time).
C18_LayoutDeterministic ==
    rep.prev # NoReport => rep.last.sections = rep.prev.sections

====
